---------------------------- MODULE Spec2Model ----------------------------
(***************************************************************************)
(* Model of src/Samsung/main.py: the schema-adaptive extraction engine     *)
(* (ForensicDatabase and its analyzers), the load worker / foreground      *)
(* event-loop protocol of ForensicApp, and the timeline correlator.        *)
(***************************************************************************)
EXTENDS Integers, Sequences, FiniteSets, TLC

VARIABLES
  loaded_databases,   \* ForensicApp.loaded_databases: insertion-ordered dict
  status_label,       \* text of the status bar
  db_buttons,         \* db_file -> text of the indicator next to its button
  tree,               \* rows shown in the data table
  overview_text,      \* overview tab
  timeline_text,      \* timeline tab
  threads,            \* one record per started load worker
  after_queue,        \* callbacks scheduled with root.after(0, ...)
  mainloop,           \* position of the foreground event loop
  callback_errors,    \* exceptions raised inside event-loop callbacks
  history,            \* completions processed so far (ghost)
  probe,              \* analyzer under test (resolver specification)
  answer              \* what the resolver returned for it

vars == <<loaded_databases, status_label, db_buttons, tree, overview_text,
          timeline_text, threads, after_queue, mainloop, callback_errors,
          history, probe, answer>>

app_vars == <<loaded_databases, status_label, db_buttons, tree, overview_text,
              timeline_text, threads, after_queue, mainloop, callback_errors,
              history>>

probe_vars == <<probe, answer>>

-----------------------------------------------------------------------------
(* Python str helpers: str.lower() and the `in` substring test.            *)

UpperLetters == "ABCDEFGHIJKLMNOPQRSTUVWXYZ"
LowerLetters == "abcdefghijklmnopqrstuvwxyz"

UpperSet == {SubSeq(UpperLetters, i, i) : i \in 1..26}

LowerOf ==
  [c \in UpperSet |->
     LET i == CHOOSE j \in 1..26 : SubSeq(UpperLetters, j, j) = c
     IN  SubSeq(LowerLetters, i, i)]

LowerChar(c) == IF c \in UpperSet THEN LowerOf[c] ELSE c

RECURSIVE lower(_)
lower(s) ==
  IF Len(s) = 0 THEN ""
  ELSE LowerChar(SubSeq(s, 1, 1)) \o lower(SubSeq(s, 2, Len(s)))

\* t in s
contains(t, s) ==
  \E i \in 0..(Len(s) - Len(t)) : SubSeq(s, i + 1, i + Len(t)) = t

Min(a, b) == IF a < b THEN a ELSE b

\* seq[:n]
Take(seq, n) == SubSeq(seq, 1, Min(n, Len(seq)))

Range(seq) == {seq[i] : i \in DOMAIN seq}

-----------------------------------------------------------------------------
(* Cell values.  An integer is kept as two limbs, hi * Limb + lo, because  *)
(* epoch milliseconds exceed the 32-bit integers of TLC.                  *)

Limb == 1000000

NoneV == [kind |-> "NoneType", hi |-> 0, lo |-> 0, txt |-> "", bytes |-> <<>>, surrogate |-> FALSE]
IntV(h, l) == [kind |-> "int", hi |-> h, lo |-> l, txt |-> "", bytes |-> <<>>, surrogate |-> FALSE]
StrV(s) == [kind |-> "str", hi |-> 0, lo |-> 0, txt |-> s, bytes |-> <<>>, surrogate |-> FALSE]
\* a str holding a lone surrogate: it cannot be encoded as UTF-8
SurrogateStrV(s) == [kind |-> "str", hi |-> 0, lo |-> 0, txt |-> s, bytes |-> <<>>, surrogate |-> TRUE]
BytesV(b) == [kind |-> "bytes", hi |-> 0, lo |-> 0, txt |-> "", bytes |-> b, surrogate |-> FALSE]

HexDigits == "0123456789abcdef"

\* the hexadecimal digits of b[lo..hi], two for each byte
RECURSIVE hex_range(_, _, _)
hex_range(b, lo, hi) ==
  IF lo > hi THEN ""
  ELSE IF lo = hi
  THEN SubSeq(HexDigits, (b[lo] \div 16) + 1, (b[lo] \div 16) + 1)
       \o SubSeq(HexDigits, (b[lo] % 16) + 1, (b[lo] % 16) + 1)
  ELSE LET mid == (lo + hi) \div 2
       IN  hex_range(b, lo, mid) \o hex_range(b, mid + 1, hi)

\* bytes.hex()
hex(b) == hex_range(b, 1, Len(b))

\* printable ASCII, code points 32..126 (the grave accent, 96, is written "?")
Ascii == " !\"#$%&'()*+,-./0123456789:;<=>?@ABCDEFGHIJKLMNOPQRSTUVWXYZ[\\]^_?abcdefghijklmnopqrstuvwxyz{|}~"

AsciiChar(n) == IF n >= 32 /\ n <= 126 THEN SubSeq(Ascii, n - 31, n - 31) ELSE "?"

\* number of continuation bytes a UTF-8 lead byte announces, -1 if it is no lead byte
Continuation(b) ==
  IF b < 128 THEN 0
  ELSE IF b >= 194 /\ b <= 223 THEN 1
  ELSE IF b >= 224 /\ b <= 239 THEN 2
  ELSE IF b >= 240 /\ b <= 244 THEN 3
  ELSE -1

\* range of the byte that follows lead byte b (overlong forms, surrogates and
\* code points above U+10FFFF are not UTF-8)
SecondLow(b) == IF b = 224 THEN 160 ELSE IF b = 240 THEN 144 ELSE 128
SecondHigh(b) == IF b = 237 THEN 159 ELSE IF b = 244 THEN 143 ELSE 191

\* a continuation byte
IsContinuation(b) == b >= 128 /\ b <= 191

\* the bytes are UTF-8: every byte that is not a continuation byte starts a
\* character and is followed by exactly the continuation bytes it announces
Utf8(b) ==
  /\ \A i \in DOMAIN b :
       IF IsContinuation(b[i])
       THEN \E j \in (i - 3)..(i - 1) :
              /\ j >= 1
              /\ Continuation(b[j]) >= i - j
              /\ \A k \in (j + 1)..(i - 1) : IsContinuation(b[k])
       ELSE LET n == Continuation(b[i]) IN
            /\ n >= 0
            /\ i + n <= Len(b)
            /\ n >= 1 => b[i + 1] >= SecondLow(b[i]) /\ b[i + 1] <= SecondHigh(b[i])
            /\ \A k \in (i + 2)..(i + n) : IsContinuation(b[k])

\* the characters of b[lo..hi], one for each byte that starts a character; a
\* character outside printable ASCII is written "?"
RECURSIVE decoded(_, _, _)
decoded(b, lo, hi) ==
  IF lo > hi THEN ""
  ELSE IF lo = hi
  THEN IF IsContinuation(b[lo]) THEN ""
       ELSE IF b[lo] < 128 THEN AsciiChar(b[lo]) ELSE "?"
  ELSE LET mid == (lo + hi) \div 2
       IN  decoded(b, lo, mid) \o decoded(b, mid + 1, hi)

\* bytes.decode('utf-8'): ok is FALSE where Python raises UnicodeDecodeError
decode(b) ==
  IF Utf8(b) THEN [ok |-> TRUE, txt |-> decoded(b, 1, Len(b))]
  ELSE [ok |-> FALSE, txt |-> ""]

HexLimit == 50
BinaryLimit == 100

\* the ellipsis written from 50 hexadecimal characters on, not from 51
sanitize_ellipsis_at_limit(value) ==
  IF value.kind = "bytes"
  THEN LET d == decode(value.bytes) IN
       IF d.ok THEN StrV(d.txt)
       ELSE IF Len(value.bytes) > BinaryLimit
            THEN StrV("<Binary data: " \o ToString(Len(value.bytes)) \o " bytes>")
            ELSE LET h == hex(value.bytes)
                 IN  StrV("<Hex: " \o Take(h, HexLimit)
                         \o (IF Len(h) >= HexLimit THEN "..." ELSE "") \o ">")
  ELSE IF value.kind = "str"
       THEN IF value.surrogate THEN StrV("<Encoding error in text data>") ELSE value
       ELSE value

\* ForensicDatabase.query, lines 62-82: one cell
sanitize(value) ==
  IF value.kind = "bytes"
  THEN LET d == decode(value.bytes) IN
       IF d.ok THEN StrV(d.txt)
       ELSE IF Len(value.bytes) > BinaryLimit
            THEN StrV("<Binary data: " \o ToString(Len(value.bytes)) \o " bytes>")
            ELSE LET h == hex(value.bytes)
                 IN  StrV("<Hex: " \o Take(h, HexLimit)
                         \o (IF Len(h) > HexLimit THEN "..." ELSE "") \o ">")
  ELSE IF value.kind = "str"
       THEN IF value.surrogate THEN StrV("<Encoding error in text data>") ELSE value
       ELSE value

\* lines 59-84: every cell of every row, in the order fetched
sanitize_row(row) == [key \in DOMAIN row |-> sanitize(row[key])]
sanitize_rows(rows) == [i \in DOMAIN rows |-> sanitize_row(rows[i])]

-----------------------------------------------------------------------------
(* The SQL statements.  A statement is named by `sql`; `limit` is its LIMIT *)
(* clause; `table` is the table an f-string statement was built for.        *)

NoLimit == 0

contacts_sql == [sql |-> "contacts_sql", table |-> "", limit |-> NoLimit]

contacts_fallback_queries ==
  << [sql |-> "contacts_fallback_queries[0]", table |-> "", limit |-> 1000],
     [sql |-> "contacts_fallback_queries[1]", table |-> "", limit |-> 1000],
     [sql |-> "contacts_fallback_queries[2]", table |-> "", limit |-> 1000] >>

calls_sql == [sql |-> "calls_sql", table |-> "", limit |-> NoLimit]

messages_sql == [sql |-> "messages_sql", table |-> "", limit |-> 1000]

possible_queries ==
  << [sql |-> "possible_queries[0]", table |-> "", limit |-> 1000],
     [sql |-> "possible_queries[1]", table |-> "", limit |-> 1000],
     [sql |-> "possible_queries[2]", table |-> "", limit |-> 100],
     [sql |-> "possible_queries[3]", table |-> "", limit |-> 100] >>

\* f"SELECT * FROM {table} LIMIT 50"
table_query(table) ==
  [sql |-> "SELECT * FROM " \o table \o " LIMIT 50", table |-> table, limit |-> 50]

downloads_sql == [sql |-> "downloads_sql", table |-> "", limit |-> NoLimit]

meta_sql == [sql |-> "meta_sql", table |-> "", limit |-> NoLimit]

events_sql == [sql |-> "events_sql", table |-> "", limit |-> 500]

accounts_sql == [sql |-> "accounts_sql", table |-> "", limit |-> NoLimit]

accounts_fallback_queries ==
  << [sql |-> "accounts_fallback_queries[0]", table |-> "", limit |-> 100],
     [sql |-> "accounts_fallback_queries[1]", table |-> "", limit |-> 100] >>

\* f"SELECT * FROM {tables[0]} LIMIT 100"
sample_query(table) ==
  [sql |-> "SELECT * FROM " \o table \o " LIMIT 100", table |-> table, limit |-> 100]

NamedQueries ==
  {contacts_sql, calls_sql, messages_sql, downloads_sql, meta_sql, events_sql, accounts_sql}
  \cup Range(contacts_fallback_queries) \cup Range(possible_queries)
  \cup Range(accounts_fallback_queries)

SqlNames == {q.sql : q \in NamedQueries}

\* the result columns each statement with an explicit SELECT list names
Columns(sql) ==
  CASE sql \in {"contacts_sql", "contacts_fallback_queries[0]",
                "contacts_fallback_queries[1]", "contacts_fallback_queries[2]"}
         -> {"contact_id", "name", "phone_number"}
    [] sql = "calls_sql" -> {"number", "type", "date", "duration", "name", "call_type"}
    [] sql = "messages_sql" -> {"address", "body", "date", "type", "read", "message_type"}
    [] sql \in {"possible_queries[0]", "possible_queries[1]"}
         -> {"url", "title", "visits", "date", "bookmark"}
    [] sql = "downloads_sql"
         -> {"id", "url", "target_path", "start_time", "received_bytes",
             "total_bytes", "state", "download_status"}
    [] sql = "meta_sql" -> {"key", "value"}
    [] sql = "events_sql"
         -> {"title", "description", "dtstart", "dtend", "eventLocation", "allDay"}
    [] sql = "accounts_sql" -> {"name", "type", "password"}
    [] sql = "accounts_fallback_queries[1]" -> {"name", "type", "authtoken"}
    [] OTHER -> {}

-----------------------------------------------------------------------------
(* An artifact file as SQLite sees it.                                      *)
(*   opens    : sqlite3.connect succeeds                                    *)
(*   readable : the file is a database SQLite can read (not encrypted,      *)
(*              truncated or locked); otherwise every statement raises      *)
(*   answers  : for each named statement, whether its tables and columns    *)
(*              exist (ok) and the rows it selects before LIMIT             *)
(*   tables   : sqlite_master, in order, with each table's rows             *)

NoSuchTable == [ok |-> FALSE, rows |-> <<>>]

\* cursor.execute(sql); cursor.fetchall()  (lines 55-59); ok is FALSE where
\* sqlite3 raises sqlite3.Error
execute(file, q) ==
  IF ~file.readable THEN NoSuchTable
  ELSE IF q.table # ""
       THEN IF \E i \in DOMAIN file.tables : lower(file.tables[i].name) = lower(q.table)
            THEN LET i == CHOOSE j \in DOMAIN file.tables :
                            lower(file.tables[j].name) = lower(q.table)
                 IN  [ok |-> TRUE, rows |-> Take(file.tables[i].rows, q.limit)]
            ELSE NoSuchTable
       ELSE LET a == file.answers[q.sql]
            IN  [ok |-> a.ok,
                 rows |-> IF q.limit = NoLimit THEN a.rows ELSE Take(a.rows, q.limit)]

\* ForensicDatabase.__init__
ForensicDatabase(db_path) == [db_path |-> db_path, connection |-> "None"]

\* ForensicDatabase.connect: the analyzer afterwards, and the value returned
connect(self) ==
  IF self.db_path.opens
  THEN [self |-> [self EXCEPT !.connection = "open"], ret |-> TRUE]
  ELSE [self |-> self, ret |-> FALSE]

\* ForensicDatabase.disconnect
disconnect(self) ==
  IF self.connection # "None" THEN [self EXCEPT !.connection = "closed"] ELSE self

\* ForensicDatabase.get_tables; exc is TRUE where sqlite3.Error leaves it
get_tables(self) ==
  IF self.connection = "None" THEN [exc |-> FALSE, tables |-> <<>>]
  ELSE IF self.connection = "closed" \/ ~self.db_path.readable
       THEN [exc |-> TRUE, tables |-> <<>>]
       ELSE [exc |-> FALSE,
             tables |-> [i \in DOMAIN self.db_path.tables |-> self.db_path.tables[i].name]]

\* query with the except clause of lines 87-89 left out
query_uncaught(self, q) ==
  IF self.connection = "None" THEN [exc |-> FALSE, rows |-> <<>>]
  ELSE LET r == IF self.connection = "closed" THEN NoSuchTable
                ELSE execute(self.db_path, q)
       IN  IF r.ok THEN [exc |-> FALSE, rows |-> sanitize_rows(r.rows)]
           ELSE [exc |-> TRUE, rows |-> <<>>]

\* ForensicDatabase.query: sqlite3.Error is caught and becomes the empty list
query(self, q) ==
  IF self.connection = "None" THEN [exc |-> FALSE, rows |-> <<>>]
  ELSE LET r == IF self.connection = "closed" THEN NoSuchTable
                ELSE execute(self.db_path, q)
       IN  IF r.ok THEN [exc |-> FALSE, rows |-> sanitize_rows(r.rows)]
           ELSE [exc |-> FALSE, rows |-> <<>>]

-----------------------------------------------------------------------------
(* The resolvers.  Each returns                                             *)
(*   exc  : an exception left the method                                    *)
(*   rows : the list returned                                               *)
(*   ran  : the statements executed, in order (ghost)                       *)

\* for q in queries: try: results = self.query(q); if results: return results
\*                   except: continue
RECURSIVE first_accepted(_, _, _, _)
first_accepted(self, queries, i, ran) ==
  IF i > Len(queries) THEN [exc |-> FALSE, rows |-> <<>>, ran |-> ran]
  ELSE LET results == query(self, queries[i])
           ran2 == Append(ran, queries[i].sql)
       IN  IF ~results.exc /\ results.rows # <<>>
           THEN [exc |-> FALSE, rows |-> results.rows, ran |-> ran2]
           ELSE first_accepted(self, queries, i + 1, ran2)

\* a single statement outside any try block
single(self, q) ==
  LET results == query(self, q)
  IN  [exc |-> results.exc, rows |-> results.rows, ran |-> <<q.sql>>]

\* ContactsAnalyzer.get_contacts
get_contacts(self) ==
  LET results == single(self, contacts_sql)
  IN  IF results.exc \/ results.rows # <<>> THEN results
      ELSE first_accepted(self, contacts_fallback_queries, 1, results.ran)

\* CallLogAnalyzer.get_call_history
get_call_history(self) == single(self, calls_sql)

\* MessagesAnalyzer.get_messages
get_messages(self) == single(self, messages_sql)

Keywords == {"url", "history", "visit", "bookmark"}

\* lines 244-251: the scan of the tables whose name holds a keyword
RECURSIVE scan_tables(_, _, _, _)
scan_tables(self, tables, i, ran) ==
  IF i > Len(tables) THEN [exc |-> FALSE, rows |-> <<>>, ran |-> ran]
  ELSE IF \E keyword \in Keywords : contains(keyword, lower(tables[i]))
       THEN LET results == query(self, table_query(tables[i]))
                ran2 == Append(ran, table_query(tables[i]).sql)
            IN  IF /\ ~results.exc
                   /\ results.rows # <<>>
                   /\ \E key \in DOMAIN results.rows[1] : contains("url", lower(key))
                THEN [exc |-> FALSE, rows |-> results.rows, ran |-> ran2]
                ELSE scan_tables(self, tables, i + 1, ran2)
       ELSE scan_tables(self, tables, i + 1, ran)

\* BrowserAnalyzer.get_browsing_history
get_browsing_history(self) ==
  LET results == first_accepted(self, possible_queries, 1, <<>>)
  IN  IF results.rows # <<>> THEN results
      ELSE LET tables == get_tables(self)
           IN  IF tables.exc THEN [exc |-> TRUE, rows |-> <<>>, ran |-> results.ran]
               ELSE scan_tables(self, tables.tables, 1, results.ran)

\* BrowserAnalyzer.get_chrome_downloads
get_chrome_downloads(self) == single(self, downloads_sql)

\* BrowserAnalyzer.get_meta_data
get_meta_data(self) == single(self, meta_sql)

\* CalendarAnalyzer.get_events
get_events(self) == single(self, events_sql)

\* AccountsAnalyzer.get_accounts
get_accounts(self) ==
  LET results == single(self, accounts_sql)
  IN  IF results.exc \/ results.rows # <<>> THEN results
      ELSE first_accepted(self, accounts_fallback_queries, 1, results.ran)

-----------------------------------------------------------------------------
(* ForensicApp: the catalogue of buttons and the worker's dispatch.         *)

\* create_gui, db_types: (db_name, db_file)
db_types ==
  << <<"Contacts", "contacts2.db">>,
     <<"Call Log", "calllog.db">>,
     <<"Messages", "mmssms.db">>,
     <<"Chrome History", "chrome_history.db">>,
     <<"Chrome Downloads", "chrome_downloads">>,
     <<"Calendar", "calendar.db">>,
     <<"Facebook Messenger", "threads_db2.db">>,
     <<"WhatsApp", "whatsapp_messages">>,
     <<"Skype Calls", "skype_calls">>,
     <<"WiFi Passwords", "wifi_passwords">>,
     <<"Accounts", "accounts.db">> >>

\* what a resolver's result means for the worker: raise, or call
\* _update_ui_after_load(db_file, db_name, data, data_type)
posted(results, data_type) ==
  [exc |-> results.exc, posted |-> ~results.exc, data |-> results.rows,
   type |-> data_type, ran |-> results.ran]

\* lines 584-591: the generic handler
generic_handler(analyzer) ==
  LET tables == get_tables(analyzer)
  IN  IF tables.exc
      THEN [exc |-> TRUE, posted |-> FALSE, data |-> <<>>, type |-> "generic", ran |-> <<>>]
      ELSE IF tables.tables # <<>>
           THEN posted(single(analyzer, sample_query(tables.tables[1])), "generic")
           ELSE [exc |-> FALSE, posted |-> FALSE, data |-> <<>>, type |-> "generic",
                 ran |-> <<>>]

\* _load_database_thread, lines 546-583: the branch a db_file takes
category(db_file) ==
  LET f == lower(db_file) IN
  IF contains("contacts", f) THEN "contacts"
  ELSE IF contains("calllog", f) THEN "calls"
  ELSE IF contains("mmssms", f) THEN "messages"
  ELSE IF contains("browser", f) \/ contains("chrome", f)
       THEN IF contains("downloads", f) THEN "downloads"
            ELSE IF contains("meta", f) THEN "meta"
            ELSE "browser"
  ELSE IF contains("calendar", f) THEN "calendar"
  ELSE IF contains("accounts", f) THEN "accounts"
  ELSE "generic"

\* _load_database_thread, lines 546-591, once connect() has returned True
resolve(db_file, analyzer) ==
  LET data_type == category(db_file) IN
  CASE data_type = "contacts" -> posted(get_contacts(analyzer), data_type)
    [] data_type = "calls" -> posted(get_call_history(analyzer), data_type)
    [] data_type = "messages" -> posted(get_messages(analyzer), data_type)
    [] data_type = "downloads" -> posted(get_chrome_downloads(analyzer), data_type)
    [] data_type = "meta" -> posted(get_meta_data(analyzer), data_type)
    [] data_type = "browser" -> posted(get_browsing_history(analyzer), data_type)
    [] data_type = "calendar" -> posted(get_events(analyzer), data_type)
    [] data_type = "accounts" -> posted(get_accounts(analyzer), data_type)
    [] OTHER -> generic_handler(analyzer)

-----------------------------------------------------------------------------
(* update_timeline.                                                         *)

ScanLimit == 100        \* data[:100]
TimelineLimit == 200    \* timeline_events[:200]
TableLimit == 1000      \* data[:1000]

\* record.get(key, default)
get(record, key, default) == IF key \in DOMAIN record THEN record[key] ELSE default

\* six decimal digits of a limb
Pad6(n) ==
  LET t == ToString(n) IN SubSeq("000000", 1, 6 - Len(t)) \o t

\* str(value), as an f-string writes a cell
fstr(value) ==
  CASE value.kind = "NoneType" -> "None"
    [] value.kind = "int" ->
         IF value.hi = 0 THEN ToString(value.lo) ELSE ToString(value.hi) \o Pad6(value.lo)
    [] OTHER -> value.txt

\* if timestamp:
truthy(value) ==
  CASE value.kind = "NoneType" -> FALSE
    [] value.kind = "int" -> value.hi # 0 \/ value.lo # 0
    [] OTHER -> value.txt # ""

\* the priority order applied to the fields that hold a value, so that a
\* null or zero field gives way to the next one
extract_first_truthy(info, record) ==
  LET Has(f) == f \in DOMAIN record /\ truthy(record[f]) IN
  IF Has("date")
  THEN [timestamp |-> record["date"],
        event_desc |->
          IF info.type = "calls"
          THEN "Call: " \o fstr(get(record, "call_type", StrV("Unknown")))
               \o " - " \o fstr(get(record, "number", StrV("Unknown")))
          ELSE IF info.type = "messages"
               THEN "SMS: " \o fstr(get(record, "message_type", StrV("Unknown")))
                    \o " - " \o fstr(get(record, "address", StrV("Unknown")))
               ELSE ""]
  ELSE IF Has("dtstart")
  THEN [timestamp |-> record["dtstart"],
        event_desc |-> "Calendar: " \o fstr(get(record, "title", StrV("No title")))]
  ELSE IF Has("lastmod")
  THEN [timestamp |-> record["lastmod"],
        event_desc |-> "Download: " \o fstr(get(record, "title", StrV("Unknown file")))]
  ELSE IF Has("start_time")
  THEN [timestamp |-> record["start_time"],
        event_desc |->
          "Download: "
          \o fstr(get(record, "target_path", get(record, "url", StrV("Unknown file"))))
          \o " (" \o fstr(get(record, "download_status", StrV("Unknown"))) \o ")"]
  ELSE [timestamp |-> NoneV, event_desc |-> ""]

\* lines 690-707: the timestamp and the description taken from one record
extract(info, record) ==
  IF "date" \in DOMAIN record
  THEN [timestamp |-> record["date"],
        event_desc |->
          IF info.type = "calls"
          THEN "Call: " \o fstr(get(record, "call_type", StrV("Unknown")))
               \o " - " \o fstr(get(record, "number", StrV("Unknown")))
          ELSE IF info.type = "messages"
               THEN "SMS: " \o fstr(get(record, "message_type", StrV("Unknown")))
                    \o " - " \o fstr(get(record, "address", StrV("Unknown")))
               ELSE ""]
  ELSE IF "dtstart" \in DOMAIN record
  THEN [timestamp |-> record["dtstart"],
        event_desc |-> "Calendar: " \o fstr(get(record, "title", StrV("No title")))]
  ELSE IF "lastmod" \in DOMAIN record
  THEN [timestamp |-> record["lastmod"],
        event_desc |-> "Download: " \o fstr(get(record, "title", StrV("Unknown file")))]
  ELSE IF "start_time" \in DOMAIN record
  THEN [timestamp |-> record["start_time"],
        event_desc |->
          "Download: "
          \o fstr(get(record, "target_path", get(record, "url", StrV("Unknown file"))))
          \o " (" \o fstr(get(record, "download_status", StrV("Unknown"))) \o ")"]
  ELSE [timestamp |-> NoneV, event_desc |-> ""]

\* str.replace('Z', '')
RECURSIVE strip_z(_)
strip_z(s) ==
  IF Len(s) = 0 THEN ""
  ELSE (IF SubSeq(s, 1, 1) = "Z" THEN "" ELSE SubSeq(s, 1, 1))
       \o strip_z(SubSeq(s, 2, Len(s)))

\* datetime.fromisoformat on the strings the model uses; any other string
\* raises ValueError
IsoInstants ==
  [s \in {"2023-11-14T22:13:20", "2023-11-14T22:13:21"} |->
     IF s = "2023-11-14T22:13:20" THEN <<1700, 0, 0>> ELSE <<1700, 1, 0>>]

\* the millisecond branch without its division by 1000
normalize_undivided(timestamp) ==
  IF timestamp.kind = "int"
  THEN LET dt == <<timestamp.hi, timestamp.lo, 0>>
       IN  [ok |-> dt[1] < 253402 \/ (dt[1] = 253402 /\ dt[2] <= 300799), dt |-> dt]
  ELSE [ok |-> FALSE, dt |-> <<0, 0, 0>>]

\* lines 712-717: the instant <<hi, lo, ms>> = (hi * Limb + lo) seconds and ms
\* milliseconds since the epoch; ok is FALSE where an exception is raised
\* (datetime.fromtimestamp accepts years up to 9999, 253402300799 seconds)
normalize(timestamp) ==
  IF timestamp.kind = "int"
  THEN LET millis == \/ timestamp.hi > 1000000
                     \/ (timestamp.hi = 1000000 /\ timestamp.lo > 0)
           dt == IF millis
                 THEN <<timestamp.hi \div 1000,
                        (timestamp.hi % 1000) * 1000 + (timestamp.lo \div 1000),
                        timestamp.lo % 1000>>
                 ELSE <<timestamp.hi, timestamp.lo, 0>>
       IN  [ok |-> dt[1] < 253402 \/ (dt[1] = 253402 /\ dt[2] <= 300799), dt |-> dt]
  ELSE LET text == strip_z(fstr(timestamp))
       IN  IF text \in DOMAIN IsoInstants
           THEN [ok |-> TRUE, dt |-> IsoInstants[text]]
           ELSE [ok |-> FALSE, dt |-> <<0, 0, 0>>]

\* the events of one record: none, or one (dt, event_desc, db_name)
events_of(db_name, info, record) ==
  LET x == extract(info, record) IN
  IF truthy(x.timestamp) /\ normalize(x.timestamp).ok
  THEN << [dt |-> normalize(x.timestamp).dt, event |-> x.event_desc, source |-> db_name] >>
  ELSE <<>>

\* the scan without its slice
scanned_all(data) == data

\* data[:100]
scanned(data) == Take(data, ScanLimit)

\* the events of data[lo..hi], in record order
RECURSIVE collect_records(_, _, _, _, _)
collect_records(db_name, info, data, lo, hi) ==
  IF lo > hi THEN <<>>
  ELSE IF lo = hi THEN events_of(db_name, info, data[lo])
  ELSE LET mid == (lo + hi) \div 2
       IN  collect_records(db_name, info, data, lo, mid)
           \o collect_records(db_name, info, data, mid + 1, hi)

\* lines 685-721: the events in the order they are appended
RECURSIVE collect(_, _)
collect(loaded, i) ==
  IF i > Len(loaded) THEN <<>>
  ELSE LET data == scanned(loaded[i].data)
       IN  collect_records(loaded[i].name, loaded[i], data, 1, Len(data))
           \o collect(loaded, i + 1)

DtLess(a, b) ==
  \/ a[1] < b[1]
  \/ (a[1] = b[1] /\ a[2] < b[2])
  \/ (a[1] = b[1] /\ a[2] = b[2] /\ a[3] < b[3])

\* an ascending sort whose result is reversed: equal keys change places
RECURSIVE sort_then_reverse(_, _, _, _)
sort_then_reverse(events, lo, hi, sorted) ==
  IF lo > hi THEN sorted
  ELSE IF lo = hi
  THEN LET e == events[lo]
           p == Cardinality({j \in DOMAIN sorted : DtLess(e.dt, sorted[j].dt)})
       IN  SubSeq(sorted, 1, p) \o <<e>> \o SubSeq(sorted, p + 1, Len(sorted))
  ELSE LET mid == (lo + hi) \div 2
           left == sort_then_reverse(events, lo, mid, sorted)
       IN  IF Len(left) >= 0 THEN sort_then_reverse(events, mid + 1, hi, left) ELSE <<>>

\* list.sort(key=lambda x: x[0], reverse=True): descending, and stable (events
\* with equal keys keep the order they had).  events[lo..hi] are inserted one
\* by one into `sorted`, each after the events whose key is not smaller; the
\* test of Len(left) makes TLC compute the left half first.
RECURSIVE sort_reverse(_, _, _, _)
sort_reverse(events, lo, hi, sorted) ==
  IF lo > hi THEN sorted
  ELSE IF lo = hi
  THEN LET e == events[lo]
           p == Cardinality({j \in DOMAIN sorted : ~DtLess(sorted[j].dt, e.dt)})
       IN  SubSeq(sorted, 1, p) \o <<e>> \o SubSeq(sorted, p + 1, Len(sorted))
  ELSE LET mid == (lo + hi) \div 2
           left == sort_reverse(events, lo, mid, sorted)
       IN  IF Len(left) >= 0 THEN sort_reverse(events, mid + 1, hi, left) ELSE <<>>

\* update_timeline: the lines written to the timeline tab
update_timeline(loaded) ==
  LET timeline_events == collect(loaded, 1)
  IN  Take(sort_reverse(timeline_events, 1, Len(timeline_events), <<>>), TimelineLimit)

\* update_overview: one summary line per loaded database
update_overview(loaded) ==
  [i \in DOMAIN loaded |-> [db_name |-> loaded[i].name, count |-> loaded[i].count,
                            type |-> loaded[i].type]]

\* update_data_table: the children are deleted; the columns change only when
\* there is data
update_data_table(old, data) ==
  IF data = <<>> THEN [columns |-> old.columns, rows |-> <<>>]
  ELSE [columns |-> DOMAIN data[1], rows |-> Take(data, TableLimit)]

ExportLimit == 500      \* info['data'][:500]

\* export_data with record_count taken from the records written
export_truncated_count(loaded) ==
  [i \in DOMAIN loaded |->
     [db_name |-> loaded[i].name,
      record_count |-> Len(Take(loaded[i].data, ExportLimit)),
      data_type |-> loaded[i].type,
      records |-> Take(loaded[i].data, ExportLimit)]]

\* export_data, lines 757-762: export_data['databases'], in store order
export_data(loaded) ==
  [i \in DOMAIN loaded |->
     [db_name |-> loaded[i].name,
      record_count |-> loaded[i].count,
      data_type |-> loaded[i].type,
      records |-> Take(loaded[i].data, ExportLimit)]]

-----------------------------------------------------------------------------
(* Artifact files the model loads.                                          *)

MaxRows == 1      \* rows a statement selects, at most
MaxTables == 2    \* tables in sqlite_master, at most

TimeColumns == {"date", "dtstart", "lastmod", "start_time"}
BlobColumns == {"password", "authtoken"}

\* row k of the rows `tag` selects; a time column holds epoch seconds
\* 1700000000 + (k mod 3), so that rows share instants; a credential column
\* holds a blob that is not UTF-8
MkRow(cols, tag, k) ==
  [c \in cols |->
     IF c \in TimeColumns THEN IntV(1700, k % 3)
     ELSE IF c \in BlobColumns THEN BytesV(<<255, k % 256>>)
     ELSE StrV(tag \o "#" \o ToString(k))]

MkRows(cols, tag, n) == [k \in 1..n |-> MkRow(cols, tag, k)]

\* the columns of the tables behind the SELECT * statements
StarColumns(sql) ==
  CASE sql = "possible_queries[2]" -> {"id", "url", "title", "last_visit_time"}
    [] sql = "possible_queries[3]" -> {"_id", "url", "date"}
    [] sql = "accounts_fallback_queries[0]" -> {"_id", "name", "type", "password"}
    [] OTHER -> Columns(sql)

\* code 0: the statement's tables or columns are absent; code n+1: it selects n rows
AnswerOf(sql, code) ==
  IF code = 0 THEN NoSuchTable
  ELSE [ok |-> TRUE, rows |-> MkRows(StarColumns(sql), sql, code - 1)]

\* tables a capture may hold, with the columns SELECT * returns for each
TableColumns ==
  [name \in {"URLs", "visits", "meta"} |->
     IF name = "URLs" THEN {{"id", "URL"}}
     ELSE IF name = "visits" THEN {{"id", "title"}, {"id", "Site_URL"}}
     ELSE {{"key", "url"}}]

TableSet ==
  {[name |-> n, rows |-> <<>>] : n \in DOMAIN TableColumns}
  \cup UNION {{[name |-> n, rows |-> MkRows(cols, n, k)] :
                 cols \in TableColumns[n], k \in 1..MaxRows} : n \in DOMAIN TableColumns}

RECURSIVE TableLists(_)
TableLists(n) ==
  IF n = 0 THEN {<<>>}
  ELSE LET shorter == TableLists(n - 1)
       IN  shorter \cup
           {Append(ts, t) : ts \in {x \in shorter : Len(x) = n - 1},
                            t \in TableSet}

DistinctNames(ts) == \A i, j \in DOMAIN ts : i # j => ts[i].name # ts[j].name

\* the named statements each branch of the worker can execute
Candidates(data_type) ==
  CASE data_type = "contacts" -> <<contacts_sql>> \o contacts_fallback_queries
    [] data_type = "calls" -> <<calls_sql>>
    [] data_type = "messages" -> <<messages_sql>>
    [] data_type = "downloads" -> <<downloads_sql>>
    [] data_type = "meta" -> <<meta_sql>>
    [] data_type = "browser" -> possible_queries
    [] data_type = "calendar" -> <<events_sql>>
    [] data_type = "accounts" -> <<accounts_sql>> \o accounts_fallback_queries
    [] OTHER -> <<>>

\* the branches that read sqlite_master
UsesTables(data_type) == data_type \in {"browser", "generic"}

Unopenable ==
  [opens |-> FALSE, readable |-> FALSE,
   answers |-> [s \in SqlNames |-> NoSuchTable], tables |-> <<>>]

Unreadable ==
  [opens |-> TRUE, readable |-> FALSE,
   answers |-> [s \in SqlNames |-> NoSuchTable], tables |-> <<>>]

\* every readable file that differs in what a branch of the worker can see
ReadableFiles(data_type) ==
  LET sqls == {q.sql : q \in Range(Candidates(data_type))}
      lists == IF UsesTables(data_type)
               THEN {x \in TableLists(MaxTables) : DistinctNames(x)}
               ELSE {<<>>}
  IN  {[opens |-> TRUE, readable |-> TRUE,
        answers |-> [s \in SqlNames |->
                       IF s \in sqls THEN AnswerOf(s, code[s]) ELSE NoSuchTable],
        tables |-> ts] :
         code \in [sqls -> 0..(MaxRows + 1)], ts \in lists}

ProbeFiles(data_type) == {Unopenable, Unreadable} \cup ReadableFiles(data_type)

-----------------------------------------------------------------------------
(* ForensicApp: the foreground event loop and the load workers.             *)

MaxLoads == 2     \* loads the user starts, at most

\* the buttons the user clicks: Call Log, Chrome History, WhatsApp
Clicked == {2, 4, 8}

\* a readable file in which no statement finds its tables, and one in which
\* every statement of the branch selects MaxRows rows
EmptyFile ==
  [opens |-> TRUE, readable |-> TRUE,
   answers |-> [s \in SqlNames |-> NoSuchTable], tables |-> <<>>]

FullFile(data_type) ==
  [opens |-> TRUE, readable |-> TRUE,
   answers |-> [s \in SqlNames |->
                  IF s \in {q.sql : q \in Range(Candidates(data_type))}
                  THEN AnswerOf(s, MaxRows + 1) ELSE NoSuchTable],
   tables |-> IF UsesTables(data_type)
              THEN << [name |-> "visits",
                       rows |-> MkRows({"id", "Site_URL"}, "visits", MaxRows)] >>
              ELSE <<>>]

AppFiles(data_type) == {Unopenable, Unreadable, EmptyFile, FullFile(data_type)}

\* str(e) of the sqlite3.DatabaseError raised for a file SQLite cannot read
DatabaseErrorText == "file is not a database"

\* __init__ and create_gui: nothing loaded, status "Ready"
AppIdle ==
  /\ loaded_databases = <<>>
  /\ status_label = "Ready"
  /\ db_buttons = [i \in DOMAIN db_types |-> "o"]
  /\ tree = [columns |-> {}, rows |-> <<>>]
  /\ overview_text = <<>>
  /\ timeline_text = <<>>
  /\ threads = <<>>
  /\ after_queue = <<>>
  /\ mainloop = [pc |-> "idle", db_file |-> "", db_name |-> "", data |-> <<>>,
                 data_type |-> ""]
  /\ callback_errors = <<>>
  /\ history = <<>>

ProbeIdle ==
  /\ probe = [db_file |-> "", analyzer |-> ForensicDatabase(Unopenable), pc |-> "none"]
  /\ answer = [exc |-> FALSE, posted |-> FALSE, data |-> <<>>, type |-> "", ran |-> <<>>]

Init == AppIdle /\ ProbeIdle

\* load_database: the click handler of button i, with the path the dialog
\* returned ("" when the dialog is cancelled)
load_database(i, cancelled, file_path) ==
  /\ mainloop.pc = "idle"
  /\ Len(threads) < MaxLoads
  /\ IF cancelled
     THEN UNCHANGED <<status_label, threads>>
     ELSE /\ status_label' = "Loading " \o db_types[i][1] \o "..."
          /\ threads' = Append(threads,
                               [file_path |-> file_path, db_file |-> db_types[i][2],
                                db_name |-> db_types[i][1], connection |-> "None",
                                pc |-> "start", e |-> ""])
  /\ UNCHANGED <<loaded_databases, db_buttons, tree, overview_text, timeline_text,
                 after_queue, mainloop, callback_errors, history, probe_vars>>

\* the store written with list.append instead of a keyed assignment
store_append(loaded, db_name, data, data_type) ==
  Append(loaded, [name |-> db_name, data |-> data, type |-> data_type,
                  count |-> Len(data)])

\* the store written with the count kept from the entry that is replaced
store_stale_count(loaded, db_name, data, data_type) ==
  IF \E i \in DOMAIN loaded : loaded[i].name = db_name
  THEN [i \in DOMAIN loaded |->
          IF loaded[i].name = db_name
          THEN [name |-> db_name, data |-> data, type |-> data_type,
                count |-> loaded[i].count]
          ELSE loaded[i]]
  ELSE Append(loaded, [name |-> db_name, data |-> data, type |-> data_type,
                       count |-> Len(data)])

\* the dict assignment of lines 607-611: an existing key keeps its place
store(loaded, db_name, data, data_type) ==
  LET entry == [name |-> db_name, data |-> data, type |-> data_type, count |-> Len(data)]
  IN  IF \E i \in DOMAIN loaded : loaded[i].name = db_name
      THEN [i \in DOMAIN loaded |-> IF loaded[i].name = db_name THEN entry ELSE loaded[i]]
      ELSE Append(loaded, entry)

\* _update_ui_after_load calling update() itself, on the worker thread
update_on_worker(db_file, db_name, data, data_type) ==
  /\ loaded_databases' =
       IF \E i \in DOMAIN loaded_databases : loaded_databases[i].name = db_name
       THEN [i \in DOMAIN loaded_databases |->
               IF loaded_databases[i].name = db_name
               THEN [name |-> db_name, data |-> data, type |-> data_type,
                     count |-> Len(data)]
               ELSE loaded_databases[i]]
       ELSE Append(loaded_databases, [name |-> db_name, data |-> data,
                                      type |-> data_type, count |-> Len(data)])
  /\ history' = Append(history, [name |-> db_name, data |-> data, type |-> data_type])
  /\ db_buttons' = [i \in DOMAIN db_buttons |->
                      IF db_types[i][2] = db_file THEN "*" ELSE db_buttons[i]]
  /\ UNCHANGED after_queue

\* _update_ui_after_load, called on the worker: update is defined and handed
\* to the event loop with root.after(0, update)
_update_ui_after_load(db_file, db_name, data, data_type) ==
  /\ after_queue' = Append(after_queue,
                           [callback |-> "update", thread |-> 0, db_file |-> db_file,
                            db_name |-> db_name, data |-> data, data_type |-> data_type])
  /\ UNCHANGED <<loaded_databases, db_buttons, history>>

\* _load_database_thread up to line 591, or up to line 596 when an exception is
\* raised: the analyzer is built and connected, the branch of db_file runs
WorkerRun(t) ==
  LET w == threads[t]
      c == connect(ForensicDatabase(w.file_path))
      r == resolve(w.db_file, c.self)
  IN  /\ w.pc = "start"
      /\ IF ~c.ret
         THEN /\ threads' = [threads EXCEPT ![t].pc = "disconnect"]
              /\ UNCHANGED <<after_queue, loaded_databases, db_buttons, history>>
         ELSE IF r.exc
              THEN /\ threads' = [threads EXCEPT ![t].pc = "except",
                                                 ![t].connection = "open",
                                                 ![t].e = DatabaseErrorText]
                   /\ after_queue' = Append(after_queue,
                                            [callback |-> "lambda", thread |-> t,
                                             db_file |-> w.db_file, db_name |-> w.db_name,
                                             data |-> <<>>, data_type |-> ""])
                   /\ UNCHANGED <<loaded_databases, db_buttons, history>>
              ELSE /\ threads' = [threads EXCEPT ![t].pc = "disconnect",
                                                 ![t].connection = "open"]
                   /\ IF r.posted
                      THEN _update_ui_after_load(w.db_file, w.db_name, r.data, r.type)
                      ELSE UNCHANGED <<after_queue, loaded_databases, db_buttons, history>>
      /\ UNCHANGED <<status_label, tree, overview_text, timeline_text, mainloop,
                     callback_errors, probe_vars>>

\* line 593: analyzer.disconnect(), the last statement of the try block
WorkerDisconnect(t) ==
  LET w == threads[t]
      a == disconnect([db_path |-> w.file_path, connection |-> w.connection])
  IN  /\ w.pc = "disconnect"
      /\ threads' = [threads EXCEPT ![t].pc = "done", ![t].connection = a.connection]
      /\ UNCHANGED <<loaded_databases, status_label, db_buttons, tree, overview_text,
                     timeline_text, after_queue, mainloop, callback_errors, history,
                     probe_vars>>

\* the end of the except clause: the name e is unbound and the thread ends
WorkerExit(t) ==
  /\ threads[t].pc = "except"
  /\ threads' = [threads EXCEPT ![t].pc = "done", ![t].e = ""]
  /\ UNCHANGED <<loaded_databases, status_label, db_buttons, tree, overview_text,
                 timeline_text, after_queue, mainloop, callback_errors, history,
                 probe_vars>>

IndexOf(db_file) == {i \in DOMAIN db_types : db_types[i][2] = db_file}

\* update(), lines 601-611: the indicator of the button and the store
UpdateStore ==
  /\ mainloop.pc = "idle"
  /\ after_queue # <<>>
  /\ Head(after_queue).callback = "update"
  /\ LET cb == Head(after_queue)
     IN  /\ after_queue' = Tail(after_queue)
         /\ db_buttons' = [i \in DOMAIN db_buttons |->
                             IF i \in IndexOf(cb.db_file) THEN "*" ELSE db_buttons[i]]
         /\ loaded_databases' = store(loaded_databases, cb.db_name, cb.data, cb.data_type)
         /\ history' = Append(history, [name |-> cb.db_name, data |-> cb.data,
                                        type |-> cb.data_type])
         /\ mainloop' = [pc |-> "views", db_file |-> cb.db_file, db_name |-> cb.db_name,
                         data |-> cb.data, data_type |-> cb.data_type]
  /\ UNCHANGED <<status_label, tree, overview_text, timeline_text, threads,
                 callback_errors, probe_vars>>

\* update(), lines 613-618: the table, the overview, the timeline, the status
UpdateViews ==
  /\ mainloop.pc = "views"
  /\ tree' = update_data_table(tree, mainloop.data)
  /\ overview_text' = update_overview(loaded_databases)
  /\ timeline_text' = update_timeline(loaded_databases)
  /\ status_label' = "Loaded " \o mainloop.db_name \o ": "
                     \o ToString(Len(mainloop.data)) \o " records"
  /\ mainloop' = [pc |-> "idle", db_file |-> "", db_name |-> "", data |-> <<>>,
                  data_type |-> ""]
  /\ UNCHANGED <<loaded_databases, db_buttons, threads, after_queue, callback_errors,
                 history, probe_vars>>

\* the lambda of line 596, run by the event loop: it reads db_name and e from
\* the frame of the worker; once the except clause has ended e is unbound and
\* the read raises NameError
ErrorCallback ==
  /\ mainloop.pc = "idle"
  /\ after_queue # <<>>
  /\ Head(after_queue).callback = "lambda"
  /\ LET cb == Head(after_queue)
         w == threads[cb.thread]
     IN  /\ after_queue' = Tail(after_queue)
         /\ IF w.pc = "except"
            THEN /\ status_label' = "Error loading " \o w.db_name \o ": " \o w.e
                 /\ UNCHANGED callback_errors
            ELSE /\ callback_errors' = Append(callback_errors,
                                              [thread |-> cb.thread, exc |-> "NameError"])
                 /\ UNCHANGED status_label
  /\ UNCHANGED <<loaded_databases, db_buttons, tree, overview_text, timeline_text,
                 threads, mainloop, history, probe_vars>>

Next ==
  \/ \E i \in Clicked : \E file_path \in AppFiles(category(db_types[i][2])) :
       load_database(i, FALSE, file_path)
  \/ \E i \in Clicked : load_database(i, TRUE, Unopenable)
  \/ \E t \in DOMAIN threads : WorkerRun(t)
  \/ \E t \in DOMAIN threads : WorkerDisconnect(t)
  \/ \E t \in DOMAIN threads : WorkerExit(t)
  \/ UpdateStore
  \/ UpdateViews
  \/ ErrorCallback

Spec == Init /\ [][Next]_vars

-----------------------------------------------------------------------------
(* Claims about the load protocol, checked under Spec.                      *)

Quiescent ==
  /\ mainloop.pc = "idle"
  /\ after_queue = <<>>
  /\ \A t \in DOMAIN threads : threads[t].pc = "done"

LoadingText(db_name) == "Loading " \o db_name \o "..."

\* C1: on every exit path of a load (a dataset produced, no candidate
\* matched, connect() failed, an exception raised) the connection the load
\* opened is closed: no terminated worker leaves its connection open.
C1_ConnectionClosedOnExit ==
  \A t \in DOMAIN threads :
    threads[t].pc = "done" => threads[t].connection # "open"

\* the exit paths on which disconnect() is reached do close the connection
C1_ClosedWithoutException ==
  \A t \in DOMAIN threads :
    (threads[t].pc = "done" /\ threads[t].file_path.readable) =>
      threads[t].connection = "closed"

\* C2: loaded_databases is never written by a worker thread: every write is a
\* step of the event loop running an update callback, one callback at a time,
\* and the views are recomputed only by the event loop, between two writes.
C2_StoreWrittenOnlyByEventLoop ==
  [][ /\ (loaded_databases' # loaded_databases \/ history' # history) =>
           /\ mainloop.pc = "idle"
           /\ mainloop'.pc = "views"
           /\ after_queue # <<>>
           /\ Head(after_queue).callback = "update"
           /\ threads' = threads
      /\ (timeline_text' # timeline_text \/ overview_text' # overview_text) =>
           /\ mainloop.pc = "views"
           /\ mainloop'.pc = "idle"
           /\ threads' = threads
           /\ loaded_databases' = loaded_databases
    ]_vars

C2_Witness ==
  /\ mainloop.pc = "views"
  /\ loaded_databases # <<>>
  /\ \E t \in DOMAIN threads : threads[t].pc = "start"
  /\ \E t \in DOMAIN threads : threads[t].pc = "disconnect"

LastOf(db_name) ==
  CHOOSE j \in DOMAIN history :
    /\ history[j].name = db_name
    /\ \A k \in DOMAIN history : history[k].name = db_name => k <= j

\* C3: loaded_databases holds exactly one entry per display name for which a
\* completion has been processed, and that entry is wholly the data, type and
\* count of the completion processed last for that name.
C3_OneEntryPerNameLastWins ==
  /\ \A i, j \in DOMAIN loaded_databases :
       loaded_databases[i].name = loaded_databases[j].name => i = j
  /\ {loaded_databases[i].name : i \in DOMAIN loaded_databases}
       = {history[j].name : j \in DOMAIN history}
  /\ \A i \in DOMAIN loaded_databases :
       LET last == history[LastOf(loaded_databases[i].name)]
       IN  /\ loaded_databases[i].data = last.data
           /\ loaded_databases[i].type = last.type
           /\ loaded_databases[i].count = Len(last.data)

C3_Witness ==
  /\ Len(history) = 2
  /\ history[1].name = history[2].name
  /\ history[1].data # <<>>
  /\ history[2].data = <<>>
  /\ Len(loaded_databases) = 1
  /\ loaded_databases[1].data = <<>>

\* C6: when connect() returns False the load writes no entry to
\* loaded_databases and the failure is surfaced as a status message: the status
\* text does not stay at "Loading <name>...".
C6_ConnectFailureSurfaced ==
  /\ Len(history) <= Cardinality({t \in DOMAIN threads : threads[t].file_path.opens})
  /\ Quiescent =>
       \A t \in DOMAIN threads :
         ~threads[t].file_path.opens => status_label # LoadingText(threads[t].db_name)

\* the part of C6 that holds: a load whose connect() fails writes no entry
C6_NoEntryWritten ==
  Len(history) <= Cardinality({t \in DOMAIN threads : threads[t].file_path.opens})

\* C7: an exception raised during a load is caught at the worker boundary and
\* the event loop sets the status text to a message that names the artifact
\* and the error; the deferred callback itself completes without raising.
C7_ErrorCallbackReports ==
  [][ ( /\ mainloop.pc = "idle"
        /\ after_queue # <<>>
        /\ Head(after_queue).callback = "lambda"
        /\ after_queue' = Tail(after_queue) ) =>
          /\ callback_errors' = callback_errors
          /\ status_label' = "Error loading " \o Head(after_queue).db_name
                             \o ": " \o DatabaseErrorText
    ]_vars

\* C8: every entry of loaded_databases has count equal to the length of its
\* data list, after any sequence of loads and replacements.
C8_CountIsLength ==
  \A i \in DOMAIN loaded_databases :
    loaded_databases[i].count = Len(loaded_databases[i].data)

C8_Witness ==
  /\ Len(history) = 2
  /\ history[1].name = history[2].name
  /\ Len(history[1].data) # Len(history[2].data)
  /\ Len(loaded_databases) = 1
  /\ loaded_databases[1].count = Len(history[2].data)

-----------------------------------------------------------------------------
(* Timeline specification: the store holds the datasets of up to            *)
(* MaxDatasets loads, the last update callback has written the store and is *)
(* about to recompute the views.                                            *)

MaxDatasets == 3

\* the buttons loaded, in this order: Call Log, Messages, Calendar,
\* Chrome Downloads
TimelineSources == <<2, 3, 6, 5>>

\* rows in the artifact files
Sizes == {0, 1, ScanLimit, ScanLimit + 1}

\* a file in which the statement of the branch selects n rows
FileOfSize(data_type, n) ==
  [opens |-> TRUE, readable |-> TRUE,
   answers |-> [s \in SqlNames |->
                  IF s = Candidates(data_type)[1].sql
                  THEN [ok |-> TRUE, rows |-> MkRows(Columns(s), s, n)]
                  ELSE NoSuchTable],
   tables |-> <<>>]

\* the entry the load of button i writes for a file of n rows
EntryOf(i, n) ==
  LET db_file == db_types[i][2]
      file == FileOfSize(category(db_file), n)
      r == resolve(db_file, connect(ForensicDatabase(file)).self)
  IN  [name |-> db_types[i][1], data |-> r.data, type |-> r.type, count |-> Len(r.data)]

\* the entries of the sources, by source and size of the file
Entries == [i \in DOMAIN TimelineSources |->
              [n \in Sizes |-> EntryOf(TimelineSources[i], n)]]

RECURSIVE TableAfter(_, _)
TableAfter(loaded, i) ==
  IF i = 0 THEN [columns |-> {}, rows |-> <<>>]
  ELSE update_data_table(TableAfter(loaded, i - 1), loaded[i].data)

InitTimeline ==
  /\ \E n \in 1..Min(MaxDatasets, Len(TimelineSources)) :
       \E size \in [1..n -> Sizes] :
         \E loaded \in {[i \in 1..n |-> Entries[i][size[i]]]} :
           \E before \in {SubSeq(loaded, 1, n - 1)} :
             /\ loaded_databases = loaded
             /\ history = [i \in 1..n |-> [name |-> loaded[i].name, data |-> loaded[i].data,
                                           type |-> loaded[i].type]]
             /\ threads = [i \in 1..n |->
                             [file_path |-> FileOfSize(loaded[i].type, size[i]),
                              db_file |-> db_types[TimelineSources[i]][2],
                              db_name |-> loaded[i].name, connection |-> "closed",
                              pc |-> "done", e |-> ""]]
             /\ db_buttons = [i \in DOMAIN db_types |->
                                IF \E j \in 1..n : TimelineSources[j] = i THEN "*" ELSE "o"]
             /\ tree = TableAfter(before, n - 1)
             /\ overview_text = update_overview(before)
             /\ timeline_text = update_timeline(before)
             /\ status_label = LoadingText(loaded[n].name)
             /\ mainloop = [pc |-> "views", db_file |-> db_types[TimelineSources[n]][2],
                            db_name |-> loaded[n].name, data |-> loaded[n].data,
                            data_type |-> loaded[n].type]
  /\ after_queue = <<>>
  /\ callback_errors = <<>>
  /\ ProbeIdle

NextTimeline == UpdateViews

SpecTimeline == InitTimeline /\ [][NextTimeline]_vars

-----------------------------------------------------------------------------
(* Claims about update_timeline, checked under SpecTimeline.                *)

\* the views are those of the store (no update callback is half-way)
ViewsCurrent == mainloop.pc = "idle"

\* C9: update_timeline emits at most 200 events, and every event comes from
\* one of the first 100 records of its dataset: no record at index >= 100
\* contributes an event.
C9_TimelineBounded ==
  ViewsCurrent =>
    /\ Len(timeline_text) <= TimelineLimit
    /\ \A n \in DOMAIN timeline_text :
         \E i \in DOMAIN loaded_databases :
           /\ loaded_databases[i].name = timeline_text[n].source
           /\ \E k \in 1..Min(ScanLimit, Len(loaded_databases[i].data)) :
                events_of(loaded_databases[i].name, loaded_databases[i],
                          loaded_databases[i].data[k]) = <<timeline_text[n]>>

C9_Witness ==
  /\ ViewsCurrent
  /\ Len(timeline_text) = TimelineLimit
  /\ Len(loaded_databases) = 3
  /\ \A i \in DOMAIN loaded_databases : Len(loaded_databases[i].data) = ScanLimit + 1

\* C10: the timeline is ordered by instant descending, events with equal
\* instants keep the order in which they were collected (dataset order, then
\* record order), and the events kept are the first 200 of that order.
C10_TimelineOrder ==
  ViewsCurrent =>
    LET collected == collect(loaded_databases, 1)
        instants == {collected[i].dt : i \in DOMAIN collected}
        Tied(events, d) == SelectSeq(events, LAMBDA e : e.dt = d)
    IN  /\ Len(timeline_text) = Min(TimelineLimit, Len(collected))
        /\ \A n \in 1..(Len(timeline_text) - 1) :
             ~DtLess(timeline_text[n].dt, timeline_text[n + 1].dt)
        /\ \A n \in DOMAIN timeline_text : timeline_text[n].dt \in instants
        /\ \A d \in instants :
             LET kept == Tied(timeline_text, d)
                 all == Tied(collected, d)
             IN  /\ Len(kept) <= Len(all)
                 /\ kept = SubSeq(all, 1, Len(kept))
                 /\ Len(kept) < Len(all) =>
                      \A n \in DOMAIN timeline_text : ~DtLess(timeline_text[n].dt, d)

C10_Witness ==
  /\ ViewsCurrent
  /\ Len(timeline_text) = TimelineLimit
  /\ Len(collect(loaded_databases, 1)) > TimelineLimit
  /\ timeline_text[1].dt = timeline_text[2].dt
  /\ \E n \in 1..(Len(timeline_text) - 1) :
       /\ timeline_text[n].dt = timeline_text[n + 1].dt
       /\ timeline_text[n].source # timeline_text[n + 1].source
  /\ \E n \in 1..(Len(timeline_text) - 1) :
       DtLess(timeline_text[n + 1].dt, timeline_text[n].dt)

-----------------------------------------------------------------------------
(* Resolver specification: one analyzer, connected and resolved once.       *)

NoAnswer == [exc |-> FALSE, posted |-> FALSE, data |-> <<>>, type |-> "", ran |-> <<>>]

InitProbe ==
  /\ AppIdle
  /\ \E i \in DOMAIN db_types :
       \E file \in ProbeFiles(category(db_types[i][2])) :
         probe = [db_file |-> db_types[i][2], analyzer |-> ForensicDatabase(file),
                  pc |-> "new"]
  /\ answer = NoAnswer

ProbeConnect ==
  /\ probe.pc = "new"
  /\ LET c == connect(probe.analyzer)
     IN  probe' = [probe EXCEPT !.analyzer = c.self,
                                !.pc = IF c.ret THEN "connected" ELSE "refused"]
  /\ UNCHANGED <<answer, app_vars>>

ProbeResolve ==
  /\ probe.pc = "connected"
  /\ answer' = resolve(probe.db_file, probe.analyzer)
  /\ probe' = [probe EXCEPT !.pc = "resolved"]
  /\ UNCHANGED app_vars

NextProbe == ProbeConnect \/ ProbeResolve

SpecProbe == InitProbe /\ [][NextProbe]_vars

-----------------------------------------------------------------------------
(* Claims about the resolvers, checked under SpecProbe.                     *)

Resolved == probe.pc = "resolved"

ProbeType == category(probe.db_file)

ProbeFile == probe.analyzer.db_path

MultiCandidate == {"contacts", "browser", "accounts"}

\* the candidates of the probed category in preference order: the named
\* statements, then (browsing history) one statement per table of
\* sqlite_master whose name holds a keyword
RECURSIVE KeywordTables(_, _)
KeywordTables(tables, i) ==
  IF i > Len(tables) THEN <<>>
  ELSE (IF \E k \in Keywords : contains(k, lower(tables[i].name))
        THEN <<table_query(tables[i].name)>> ELSE <<>>)
       \o KeywordTables(tables, i + 1)

PreferenceOrder ==
  Candidates(ProbeType)
  \o (IF ProbeType = "browser" /\ ProbeFile.readable
      THEN KeywordTables(ProbeFile.tables, 1) ELSE <<>>)

\* the acceptance rule: at least one row, and for a scanned table a result
\* column whose name contains "url"
Accepts(q) ==
  LET r == execute(ProbeFile, q)
  IN  /\ r.ok
      /\ r.rows # <<>>
      /\ q.table # "" => \E key \in DOMAIN r.rows[1] : contains("url", lower(key))

AcceptedSet == {i \in DOMAIN PreferenceOrder : Accepts(PreferenceOrder[i])}

FirstAcceptedIndex == CHOOSE i \in AcceptedSet : \A j \in AcceptedSet : i <= j

SqlOf(queries) == [i \in DOMAIN queries |-> queries[i].sql]

\* C4: for every multi-candidate category and every database state the
\* resolver returns the sanitized rows of the lowest-index accepted candidate,
\* runs no candidate after it, and returns the empty list iff none is accepted.
C4_LowestAcceptedCandidate ==
  (Resolved /\ ProbeType \in MultiCandidate) =>
    LET order == PreferenceOrder
        accepted == {i \in DOMAIN order : Accepts(order[i])}
        first == CHOOSE i \in accepted : \A j \in accepted : i <= j
    IN  /\ ~answer.exc
        /\ answer.posted
        /\ (answer.data = <<>>) <=> (accepted = {})
        /\ accepted # {} =>
             /\ answer.data = sanitize_rows(execute(ProbeFile, order[first]).rows)
             /\ answer.ran = SqlOf(SubSeq(order, 1, first))
        /\ accepted = {} => answer.ran = SqlOf(order)

\* the same statement for the files SQLite can read (the part of C4 that holds)
C4_OnReadableFiles ==
  ProbeFile.readable => C4_LowestAcceptedCandidate

C4_Witness ==
  /\ Resolved /\ ProbeType = "browser" /\ ProbeFile.readable
  /\ AcceptedSet # {} /\ FirstAcceptedIndex > Len(possible_queries)
  /\ Len(PreferenceOrder) > FirstAcceptedIndex
  /\ answer.data # <<>>

Absent(q) == ~execute(ProbeFile, q).ok

\* C5: a candidate whose table or column is absent counts as not accepted, the
\* next candidate is tried and no store error leaves the resolver; when the
\* preferred candidate's structure is absent and the second candidate's is
\* present with at least one row, the second candidate's rows are returned.
C5_AbsentStructureFallsBack ==
  (Resolved /\ ProbeFile.readable) =>
    LET order == PreferenceOrder IN
    /\ ~answer.exc
    /\ \A i \in DOMAIN answer.ran :
         (i <= Len(order) /\ Absent(order[i])) =>
           /\ answer.ran[i] = order[i].sql
           /\ i < Len(order) =>
                /\ Len(answer.ran) > i
                /\ answer.ran[i + 1] = order[i + 1].sql
    /\ (Len(order) >= 2 /\ Absent(order[1]) /\ Accepts(order[2])) =>
         /\ answer.posted
         /\ answer.data = sanitize_rows(execute(ProbeFile, order[2]).rows)

C5_Witness ==
  /\ Resolved /\ ProbeFile.readable /\ ProbeType = "accounts"
  /\ Absent(PreferenceOrder[1]) /\ Accepts(PreferenceOrder[2])
  /\ ~answer.exc
  /\ answer.data = sanitize_rows(execute(ProbeFile, PreferenceOrder[2]).rows)
  /\ answer.data[1]["password"] = StrV("<Hex: ff01>")

-----------------------------------------------------------------------------
(* Cell specification: one raw value, normalised by update_timeline or      *)
(* sanitised by query once.  probe holds the value, answer the result.      *)

\* epoch seconds <<hi, lo>> = hi * Limb + lo, on both sides of 10^9 (whose
\* milliseconds are 10^12) and of the last second of year 9999
Instants ==
  {<<hi, lo>> : hi \in {0, 1, 999, 1000, 1001, 1700, 253402, 253403},
                lo \in {0, 1, 999, 1000, 300799, 300800, 999999}}

\* the integer 1000 * s
Times1000(s) == IntV(s[1] * 1000 + (s[2] \div 1000), (s[2] % 1000) * 1000)

MaxBlob == 102    \* bytes in a blob, at most

\* a blob of n bytes that is not UTF-8: the byte 255 first, or last after
\* n - 1 bytes of ASCII
Blob(n, first) ==
  [k \in 1..n |-> IF (first /\ k = 1) \/ (~first /\ k = n) THEN 255 ELSE (k * 7) % 128]

InitCell ==
  /\ AppIdle
  /\ \/ \E s \in Instants :
          probe = [op |-> "normalize", seconds |-> IntV(s[1], s[2]),
                   millis |-> Times1000(s), pc |-> "new"]
     \/ \E n \in 1..MaxBlob : \E first \in BOOLEAN :
          probe = [op |-> "sanitize", value |-> BytesV(Blob(n, first)), pc |-> "new"]
  /\ answer = NoAnswer

\* lines 709-721 on the seconds value and on the milliseconds value
CellNormalize ==
  /\ probe.op = "normalize" /\ probe.pc = "new"
  /\ answer' = [seconds |-> normalize(probe.seconds), millis |-> normalize(probe.millis)]
  /\ probe' = [probe EXCEPT !.pc = "done"]
  /\ UNCHANGED app_vars

\* lines 62-82 on the value
CellSanitize ==
  /\ probe.op = "sanitize" /\ probe.pc = "new"
  /\ answer' = sanitize(probe.value)
  /\ probe' = [probe EXCEPT !.pc = "done"]
  /\ UNCHANGED app_vars

NextCell == CellNormalize \/ CellSanitize

SpecCell == InitCell /\ [][NextCell]_vars

-----------------------------------------------------------------------------
(* Claims about single values, checked under SpecCell.                      *)

Normalized == probe.op = "normalize" /\ probe.pc = "done"

\* s <= bound, for s = <<hi, lo>>
AtMost(s, hi, lo) == s[1] < hi \/ (s[1] = hi /\ s[2] <= lo)

ProbeInstant == <<probe.seconds.hi, probe.seconds.lo>>

\* C11 as stated: for every instant, the raw timestamp in seconds and the one
\* in milliseconds are normalized to the same instant.
C11_SameInstantAlways ==
  (Normalized /\ AtMost(ProbeInstant, 253402, 300799)) =>
    /\ answer.seconds.ok /\ answer.millis.ok
    /\ answer.seconds.dt = answer.millis.dt

\* C11, amended: for every instant later than 10^9 seconds (whose milliseconds
\* exceed 10^12) the two raw timestamps are normalized to the same instant, as
\* for 1700000000 and 1700000000000; up to 10^9 seconds the millisecond value
\* does not exceed 10^12 and is read as a number of seconds.
C11_SameInstantAboveThreshold ==
  (Normalized /\ AtMost(ProbeInstant, 253402, 300799)) =>
    IF ~AtMost(ProbeInstant, 1000, 0)
    THEN /\ answer.seconds.ok /\ answer.millis.ok
         /\ answer.seconds.dt = <<ProbeInstant[1], ProbeInstant[2], 0>>
         /\ answer.millis.dt = answer.seconds.dt
    ELSE /\ answer.seconds.dt = <<ProbeInstant[1], ProbeInstant[2], 0>>
         /\ answer.millis.dt = <<probe.millis.hi, probe.millis.lo, 0>>

C11_Witness ==
  /\ Normalized
  /\ probe.seconds = IntV(1700, 0) /\ probe.millis = IntV(1700000, 0)
  /\ answer.seconds.ok /\ answer.millis.ok
  /\ answer.millis.dt = <<1700, 0, 0>>

Sanitized == probe.op = "sanitize" /\ probe.pc = "done"

\* hexadecimal character j of bytes.hex()
HexAt(b, j) ==
  LET byte == b[(j + 1) \div 2]
      nibble == IF j % 2 = 1 THEN byte \div 16 ELSE byte % 16
  IN  SubSeq(HexDigits, nibble + 1, nibble + 1)

\* C14: a bytes value of length len <= 100 that is not UTF-8 becomes a hex
\* marker holding exactly min(50, 2 * len) hexadecimal characters, followed by
\* an ellipsis iff 2 * len > 50; a longer one becomes a marker that reports
\* exactly len as its byte count.
C14_HexMarker ==
  Sanitized =>
    LET b == probe.value.bytes
        len == Len(b)
        m == Min(50, 2 * len)
        tail == IF 2 * len > 50 THEN "...>" ELSE ">"
        txt == answer.txt
    IN  /\ answer.kind = "str"
        /\ IF len <= 100
           THEN /\ Len(txt) = 6 + m + Len(tail)
                /\ SubSeq(txt, 1, 6) = "<Hex: "
                /\ \A j \in 1..m : SubSeq(txt, 6 + j, 6 + j) = HexAt(b, j)
                /\ SubSeq(txt, 7 + m, Len(txt)) = tail
           ELSE txt = "<Binary data: " \o ToString(len) \o " bytes>"

C14_Witness ==
  /\ Sanitized
  /\ Len(probe.value.bytes) = 25
  /\ probe.value.bytes[25] = 255
  /\ Len(answer.txt) = 57
  /\ SubSeq(answer.txt, 55, 57) = "ff>"

-----------------------------------------------------------------------------
(* Export specification: the store holds the datasets of up to MaxDatasets  *)
(* loads, every callback has run, and the user exports once.  answer holds  *)
(* the document handed to json.dump.                                        *)

\* rows in the artifact files
ExportSizes == {0, ExportLimit, ExportLimit + 1, 600}

\* the buttons loaded, in this order: Call Log, Messages, Contacts, Calendar
ExportSources == <<2, 3, 1, 6>>

ExportEntries == [i \in DOMAIN ExportSources |->
                    [n \in ExportSizes |-> EntryOf(ExportSources[i], n)]]

InitExport ==
  /\ \E n \in 1..Min(MaxDatasets, Len(ExportSources)) :
       \E size \in [1..n -> ExportSizes] :
         \E loaded \in {[i \in 1..n |-> ExportEntries[i][size[i]]]} :
           /\ loaded_databases = loaded
           /\ history = [i \in 1..n |-> [name |-> loaded[i].name, data |-> loaded[i].data,
                                         type |-> loaded[i].type]]
           /\ threads = [i \in 1..n |->
                           [file_path |-> FileOfSize(loaded[i].type, size[i]),
                            db_file |-> db_types[ExportSources[i]][2],
                            db_name |-> loaded[i].name, connection |-> "closed",
                            pc |-> "done", e |-> ""]]
           /\ db_buttons = [i \in DOMAIN db_types |->
                              IF \E j \in 1..n : ExportSources[j] = i THEN "*" ELSE "o"]
           /\ tree = TableAfter(loaded, n)
           /\ overview_text = update_overview(loaded)
           /\ timeline_text = update_timeline(loaded)
           /\ status_label = "Loaded " \o loaded[n].name \o ": "
                              \o ToString(Len(loaded[n].data)) \o " records"
  /\ mainloop = [pc |-> "idle", db_file |-> "", db_name |-> "", data |-> <<>>,
                 data_type |-> ""]
  /\ after_queue = <<>>
  /\ callback_errors = <<>>
  /\ probe = [op |-> "export", pc |-> "new"]
  /\ answer = NoAnswer

\* export_data: the click on "Export to JSON"; the save dialog is cancelled
\* or returns a path
ExportData(cancelled) ==
  /\ mainloop.pc = "idle"
  /\ probe.op = "export" /\ probe.pc = "new"
  /\ loaded_databases # <<>>
  /\ IF cancelled
     THEN /\ probe' = [probe EXCEPT !.pc = "cancelled"]
          /\ UNCHANGED answer
     ELSE /\ probe' = [probe EXCEPT !.pc = "written"]
          /\ answer' = [device_info |-> "Samsung Galaxy S22",
                        databases |-> export_data(loaded_databases)]
  /\ UNCHANGED app_vars

NextExport == \E cancelled \in BOOLEAN : ExportData(cancelled)

SpecExport == InitExport /\ [][NextExport]_vars

-----------------------------------------------------------------------------
(* Claims about export_data, checked under SpecExport.                      *)

Exported == probe.op = "export" /\ probe.pc = "written"

\* C12: for every dataset of the store with n records export_data writes
\* exactly min(n, 500) records, the first ones in order, and a record_count
\* equal to n; a dataset of more than 500 records is truncated, never dropped.
C12_ExportTruncates ==
  Exported =>
    /\ Len(answer.databases) = Len(loaded_databases)
    /\ \A i \in DOMAIN loaded_databases :
         LET data == loaded_databases[i].data
             out == answer.databases[i]
         IN  /\ out.db_name = loaded_databases[i].name
             /\ Len(out.records) = Min(Len(data), 500)
             /\ \A k \in DOMAIN out.records : out.records[k] = data[k]
             /\ out.record_count = Len(data)

C12_Witness ==
  /\ Exported
  /\ \E i \in DOMAIN loaded_databases :
       /\ Len(loaded_databases[i].data) = 600
       /\ Len(answer.databases[i].records) = 500
       /\ answer.databases[i].record_count = 600
  /\ \E i \in DOMAIN loaded_databases : Len(loaded_databases[i].data) = 0

-----------------------------------------------------------------------------
(* Bulk specification: the resolver specification on files that hold many   *)
(* rows.                                                                    *)

\* rows the first statement of the branch selects, and rows of the table
BulkSizes == {0, 1, 1000, 1001}

\* a file in which the first statement of the branch selects n rows and, for
\* the branches that read sqlite_master, the table "visits" holds n rows
BulkFile(data_type, n) ==
  [opens |-> TRUE, readable |-> TRUE,
   answers |-> [s \in SqlNames |->
                  IF Candidates(data_type) # <<>> /\ s = Candidates(data_type)[1].sql
                  THEN [ok |-> TRUE, rows |-> MkRows(Columns(s), s, n)]
                  ELSE NoSuchTable],
   tables |-> IF UsesTables(data_type)
              THEN << [name |-> "visits", rows |-> MkRows({"id", "Site_URL"}, "visits", n)] >>
              ELSE <<>>]

InitBulk ==
  /\ AppIdle
  /\ \E i \in DOMAIN db_types : \E n \in BulkSizes :
       probe = [db_file |-> db_types[i][2],
                analyzer |-> ForensicDatabase(BulkFile(category(db_types[i][2]), n)),
                pc |-> "new"]
  /\ answer = NoAnswer

SpecBulk == InitBulk /\ [][NextProbe]_vars

-----------------------------------------------------------------------------
(* Claims about the size of a dataset, checked under SpecBulk.              *)

\* C13: every candidate query of every category is bounded to a fixed maximum
\* row count of at most 1000: for any database contents no resolver returns
\* more than 1000 records.
C13_AtMostThousandRecords ==
  Resolved => Len(answer.data) <= 1000

\* the statements that carry a LIMIT clause do return no more rows than it says
C13_LimitedStatementsBounded ==
  (Resolved /\ answer.ran # <<>>) =>
    \A q \in NamedQueries :
      (q.sql = answer.ran[Len(answer.ran)] /\ q.limit # NoLimit) =>
        Len(answer.data) <= q.limit


-----------------------------------------------------------------------------
(* Claims about the descriptions of timeline events, checked under Spec.    *)

HasPrefix(s, p) == Len(s) >= Len(p) /\ SubSeq(s, 1, Len(p)) = p

\* event n of the timeline took its timestamp from the `date` field of a
\* scanned record of the dataset it names
FromDateField(n) ==
  \E i \in DOMAIN loaded_databases :
    LET data == loaded_databases[i].data IN
    /\ loaded_databases[i].name = timeline_text[n].source
    /\ \E k \in 1..Min(ScanLimit, Len(data)) :
         /\ "date" \in DOMAIN data[k]
         /\ truthy(data[k]["date"])
         /\ normalize(data[k]["date"]) = [ok |-> TRUE, dt |-> timeline_text[n].dt]

\* the category tag of the dataset event n names
TypeOfSource(n) ==
  LET i == CHOOSE j \in DOMAIN loaded_databases :
             loaded_databases[j].name = timeline_text[n].source
  IN  loaded_databases[i].type

Described(n) ==
  \/ HasPrefix(timeline_text[n].event, "Call: ")
  \/ HasPrefix(timeline_text[n].event, "SMS: ")

\* C16: every timeline event whose timestamp was taken from a record's
\* `date` field carries a description of the form "Call: ... - ..." or
\* "SMS: ... - ...", whatever the category tag of its dataset; none is empty.
C16_DateEventsDescribed ==
  ViewsCurrent =>
    \A n \in DOMAIN timeline_text :
      FromDateField(n) => (Described(n) /\ timeline_text[n].event # "")

\* the same for the events of datasets tagged calls or messages only
C16_CallsAndMessagesDescribed ==
  ViewsCurrent =>
    \A n \in DOMAIN timeline_text :
      (FromDateField(n) /\ TypeOfSource(n) \in {"calls", "messages"}) =>
        (Described(n) /\ timeline_text[n].event # "")


-----------------------------------------------------------------------------
(* Claims about loads in which no candidate is accepted, checked under      *)
(* Spec.                                                                    *)

\* what the branch of worker t yields for its file
OutcomeOf(t) ==
  resolve(threads[t].db_file, connect(ForensicDatabase(threads[t].file_path)).self)

\* the file of worker t opens and its branch accepts no candidate
NoCandidateAccepted(t) ==
  /\ threads[t].file_path.opens
  /\ OutcomeOf(t).data = <<>>

\* a completion with empty data has been processed for the display name and
\* the store holds an entry for it
RecordedUnresolved(db_name) ==
  /\ \E j \in DOMAIN history : history[j].name = db_name /\ history[j].data = <<>>
  /\ \E i \in DOMAIN loaded_databases :
       /\ loaded_databases[i].name = db_name
       /\ loaded_databases[i].count = Len(loaded_databases[i].data)

\* every load accepted no candidate, and the status reports one of them
StatusReportsLoad ==
  (threads # <<>> /\ \A t \in DOMAIN threads : NoCandidateAccepted(t)) =>
    /\ callback_errors = <<>>
    /\ \E t \in DOMAIN threads :
         status_label = "Loaded " \o threads[t].db_name \o ": 0 records"

\* C17: for every category, the generic one included, when the file opens
\* but no candidate is accepted the load completes without an error: an entry
\* for the display name is recorded with empty data and count 0, and the
\* status reports the load and not an error.
C17_UnresolvedIsRecorded ==
  Quiescent =>
    /\ \A t \in DOMAIN threads :
         NoCandidateAccepted(t) => RecordedUnresolved(threads[t].db_name)
    /\ StatusReportsLoad

\* the same for the named categories on files SQLite can read
C17_NamedCategoriesRecorded ==
  Quiescent =>
    /\ \A t \in DOMAIN threads :
         ( /\ NoCandidateAccepted(t)
           /\ threads[t].file_path.readable
           /\ category(threads[t].db_file) # "generic" ) =>
             RecordedUnresolved(threads[t].db_name)
    /\ (\A t \in DOMAIN threads :
          /\ threads[t].file_path.readable
          /\ category(threads[t].db_file) # "generic") => StatusReportsLoad


-----------------------------------------------------------------------------
(* Field specification: the store holds one dataset, the first table of a   *)
(* capture read with SELECT *, whose records carry any subset of the time   *)
(* fields with any kind of value; the update callback has written the store *)
(* and is about to recompute the views.                                     *)

\* a time field that the record does not have
AbsentV == [kind |-> "absent", hi |-> 0, lo |-> 0, txt |-> ""]

\* what a time column may hold: NULL, zero, epoch seconds, seconds beyond
\* year 9999, text that is no date, and an ISO date
FieldValues ==
  {NoneV, IntV(0, 0), IntV(1700, 1), IntV(1700, 2), IntV(300000, 0),
   StrV("not a date"), StrV("2023-11-14T22:13:21Z")}

\* the record of a row in which column c holds f[c], or is absent
RecordOf(f, tag) ==
  [c \in {x \in DOMAIN f : f[x] # AbsentV} \cup {"title"} |->
     IF c = "title" THEN StrV(tag) ELSE f[c]]

FieldRecords ==
  {RecordOf(f, "probe") : f \in [TimeColumns -> FieldValues \cup {AbsentV}]}

\* a calendar-like row whose dtstart parses, earlier than any other instant
Steady == [dtstart |-> IntV(1700, 0), title |-> StrV("steady")]

\* a capture whose only table holds the rows
FieldFile(rows) ==
  [opens |-> TRUE, readable |-> TRUE,
   answers |-> [s \in SqlNames |-> NoSuchTable],
   tables |-> << [name |-> "messages", rows |-> rows] >>]

\* the button loaded: WhatsApp, the generic branch
FieldSource == 8

InitFields ==
  /\ \E r \in FieldRecords : \E rows \in {<<r, Steady>>, <<Steady, r>>} :
       \E file \in {FieldFile(rows)} :
         \E res \in {resolve(db_types[FieldSource][2],
                             connect(ForensicDatabase(file)).self)} :
           /\ loaded_databases = store(<<>>, db_types[FieldSource][1], res.data, res.type)
           /\ history = << [name |-> db_types[FieldSource][1], data |-> res.data,
                            type |-> res.type] >>
           /\ threads = << [file_path |-> file, db_file |-> db_types[FieldSource][2],
                            db_name |-> db_types[FieldSource][1],
                            connection |-> "closed", pc |-> "done", e |-> ""] >>
           /\ mainloop = [pc |-> "views", db_file |-> db_types[FieldSource][2],
                          db_name |-> db_types[FieldSource][1], data |-> res.data,
                          data_type |-> res.type]
  /\ db_buttons = [i \in DOMAIN db_types |-> IF i = FieldSource THEN "*" ELSE "o"]
  /\ tree = [columns |-> {}, rows |-> <<>>]
  /\ overview_text = <<>>
  /\ timeline_text = <<>>
  /\ status_label = LoadingText(db_types[FieldSource][1])
  /\ after_queue = <<>>
  /\ callback_errors = <<>>
  /\ ProbeIdle

NextFields == UpdateViews

SpecFields == InitFields /\ [][NextFields]_vars

-----------------------------------------------------------------------------
(* Claims about the field a timestamp is taken from, checked under          *)
(* SpecFields.                                                              *)

Priority == <<"date", "dtstart", "lastmod", "start_time">>

Present(record) == {i \in DOMAIN Priority : Priority[i] \in DOMAIN record}

\* the first field present, in priority order
Chosen(record) ==
  Priority[CHOOSE i \in Present(record) : \A j \in Present(record) : i <= j]

\* the record has a time field and the value of the first one parses
Contributes(record) ==
  /\ Present(record) # {}
  /\ truthy(record[Chosen(record)])
  /\ normalize(record[Chosen(record)]).ok

\* the scanned records that give an event at instant d
GivingInstant(data, d) ==
  {k \in 1..Min(ScanLimit, Len(data)) :
     Contributes(data[k]) /\ normalize(data[k][Chosen(data[k])]).dt = d}

\* C15: each scanned record gives its timestamp from the first field present
\* in the order date, dtstart, lastmod, start_time, and a lower field is never
\* consulted when a higher one is present, be it null, zero or unparseable;
\* a record with none of the four gives no event, and a record whose chosen
\* value does not parse is dropped alone: the timeline holds exactly one
\* event, at the instant of its chosen field, for every other record.
C15_FirstPresentFieldOnly ==
  ViewsCurrent =>
    \A i \in DOMAIN loaded_databases :
      LET data == loaded_databases[i].data
          mine == {n \in DOMAIN timeline_text :
                     timeline_text[n].source = loaded_databases[i].name}
      IN  /\ Cardinality(mine)
               = Cardinality({k \in 1..Min(ScanLimit, Len(data)) : Contributes(data[k])})
          /\ \A n \in mine :
               Cardinality({m \in mine : timeline_text[m].dt = timeline_text[n].dt})
                 = Cardinality(GivingInstant(data, timeline_text[n].dt))

\* a record whose date is null and whose dtstart parses was scanned next to
\* one that parses: only the latter is on the timeline
C15_Witness ==
  /\ ViewsCurrent
  /\ Len(loaded_databases) = 1
  /\ \E k \in DOMAIN loaded_databases[1].data :
       LET record == loaded_databases[1].data[k] IN
       /\ "date" \in DOMAIN record
       /\ record["date"] = NoneV
       /\ "dtstart" \in DOMAIN record
       /\ record["dtstart"] = IntV(1700, 2)
  /\ Len(timeline_text) = 1
  /\ timeline_text[1].event = "Calendar: steady"

\* a record without any time field was scanned and gave no event
C15_WitnessNoField ==
  /\ ViewsCurrent
  /\ \E k \in DOMAIN loaded_databases[1].data :
       Present(loaded_databases[1].data[k]) = {}
  /\ Len(timeline_text) = 1

=============================================================================
